---- MODULE Spec2Model ----
(***************************************************************************)
(* Model of src/main.py: the Monte Carlo experiment that measures how far   *)
(* randomly generated round-robin schedules are from a double round-robin.  *)
(*                                                                          *)
(* Python lists are 0-indexed, TLA+ sequences 1-indexed: element i of a     *)
(* Python list is element i+1 of the sequence that models it.  A Python     *)
(* dict is a function whose DOMAIN is the dict's key set.                   *)
(***************************************************************************)
EXTENDS Integers, Sequences, FiniteSets, TLC

VARIABLES
    mt,           \* the generator's output stream, as far as it was drawn
    rng,          \* per process: the random module's state (stream position)
    pc,           \* per process: where it stands
    exp,          \* per process: the Experiment object it holds
    repetition,   \* per process: completed iterations of execute's loop
    output,       \* the files under output/, by name
    experiments,  \* main: the list handed to pool.map
    results,      \* main: the Experiments pool.map returned, by input index
    all_results,  \* main: the nested dict main builds
    task,         \* per worker: the input index of the work item it runs, 0 if none
    tournament,   \* test driver: the tournament under test
    arg,          \* test driver: the argument of the last call
    ret           \* test driver: the value the last call returned

vars == <<mt, rng, pc, exp, repetition, output, experiments, results,
          all_results, task, tournament, arg, ret>>

(***************************************************************************)
(* Bounds of the model.                                                     *)
(***************************************************************************)
MaxCodecPairs == 3    \* the codec is exercised for N = 2, 4, .., 2*MaxCodecPairs
RngPeriod == 3        \* the generator's stream repeats after RngPeriod words
RngWords == 4         \* a word of the stream is in 0..RngWords-1
MaxThreshold == 2     \* thresholds tried on generated tournaments: 0..MaxThreshold
MaxReps == 2          \* repetitions of an experiment: up to MaxReps

\* Team counts of the tournament-level runs (main's grid starts at 4; 2 is the
\* smallest even count).
TeamCounts == {2, 4}

\* Experiment.__init__'s defaults.
DefaultRepetitions == 1000
DefaultMaxStreak == 3

\* The main process and the worker processes of the pool.
Main == "main"
Workers == {"w1", "w2"}
Procs == {Main} \cup Workers

(***************************************************************************)
(* Helpers: Python built-ins.                                               *)
(***************************************************************************)
Abs(x) == IF x < 0 THEN -x ELSE x

Range(n) == [i \in 1..n |-> i - 1]

SeqToSet(s) == {s[i] : i \in DOMAIN s}

\* sum(d.values()); a loop's "violations += f(x)" is the sum of [x |-> f(x)].
RECURSIVE SumDict(_)
SumDict(d) ==
    IF DOMAIN d = {} THEN 0
    ELSE LET k == CHOOSE x \in DOMAIN d : TRUE
         IN d[k] + SumDict([x \in DOMAIN d \ {k} |-> d[x]])


sorted(s) == SortSeq(s, LAMBDA a, b : a < b)

RECURSIVE flatten(_)
flatten(lst) == IF Len(lst) = 0 THEN <<>> ELSE Head(lst) \o flatten(Tail(lst))

\* itertools.batched(s, 2): consecutive pairs, and a last 1-tuple when Len(s) is odd.
batched(s) ==
    [k \in 1..((Len(s) + 1) \div 2) |->
        IF 2 * k <= Len(s) THEN <<s[2 * k - 1], s[2 * k]>> ELSE <<s[2 * k - 1]>>]

Swap(x, i, j) == [x EXCEPT ![i] = x[j], ![j] = x[i]]

\* random.shuffle: for i in reversed(range(1, len(x))): j = randbelow(i+1); swap.
\* The draws j are the mixed-radix digits of the generator word w.
RECURSIVE FisherYates(_, _, _)
FisherYates(x, i, w) ==
    IF i < 1 THEN x
    ELSE FisherYates(Swap(x, i + 1, (w % (i + 1)) + 1), i - 1, w \div (i + 1))

shuffled(lst, w) == FisherYates(lst, Len(lst) - 1, w)

EmptyDict == <<>>

\* d[k] = v
Put(d, k, v) == [x \in DOMAIN d \cup {k} |-> IF x = k THEN v ELSE d[x]]

incrementOverwrite(dic, key, inc, default) ==
    IF key \in DOMAIN dic THEN [dic EXCEPT ![key] = inc]
    ELSE dic @@ (key :> (default + inc))

increment(dic, key, inc, default) ==
    IF key \in DOMAIN dic THEN [dic EXCEPT ![key] = @ + inc]
    ELSE dic @@ (key :> (default + inc))

(***************************************************************************)
(* class Experiment                                                         *)
(***************************************************************************)
NewExperiment(repetitions, nTeams, maxStreak) ==
    [NREPETITIONS |-> repetitions,
     NTEAMS |-> nTeams,
     NROUNDS |-> 2 * (nTeams - 1),
     NGAMES |-> nTeams * (nTeams - 1),
     NGAMESPERROUND |-> (nTeams * (nTeams - 1)) \div (2 * (nTeams - 1)),
     MAXSTREAK |-> maxStreak,
     maxStreakViolations |-> EmptyDict,
     doubleRoundRobinViolations |-> EmptyDict,
     noRepeatViolations |-> EmptyDict]

gameIdToTeamIds(self, gid) ==
    LET host == gid \div (self.NTEAMS - 1)
        guest == gid % (self.NTEAMS - 1)
    IN IF guest >= host THEN <<host, guest + 1>> ELSE <<host, guest>>

teamIdsToGameIdNoShift(self, host, guest) == host * (self.NTEAMS - 1) + guest

teamIdsToGameId(self, host, guest) ==
    LET gid == host * (self.NTEAMS - 1) + guest
    IN IF guest > host THEN gid - 1 ELSE gid

\* batched() ends in a 1-tuple when NTEAMS is odd; teamIdsToGameId(*t) then raises
\* TypeError (a missing argument).
randomRoundRaises(self) ==
    \E k \in DOMAIN batched(Range(self.NTEAMS)) :
        Len(batched(Range(self.NTEAMS))[k]) # 2

\* w: the generator word random.shuffle consumes.
randomRoundSameTeam(self, w) ==
    LET teamIds == Range(self.NTEAMS)
        shuffledTeamIds == shuffled(teamIds, w)
        batches == batched(shuffledTeamIds)
    IN [k \in DOMAIN batches |-> teamIdsToGameId(self, batches[k][1], batches[k][1])]

randomRound(self, w) ==
    LET teamIds == Range(self.NTEAMS)
        shuffledTeamIds == shuffled(teamIds, w)
        batches == batched(shuffledTeamIds)
    IN sorted([k \in DOMAIN batches |->
                  teamIdsToGameId(self, batches[k][1], batches[k][2])])

\* words: the generator words of the NROUNDS shuffles, in call order.
randomTournament(self, words) ==
    [r \in 1..self.NROUNDS |->
        LET round == randomRound(self, words[r])
        IN [g \in DOMAIN round |-> gameIdToTeamIds(self, round[g])]]

\* Counter(lst)[x]
Count(lst, x) == Cardinality({i \in DOMAIN lst : lst[i] = x})

countDoubleRoundRobinViolations(self, t) ==
    LET flat == flatten(t)
    IN SumDict([host \in 0..(self.NTEAMS - 1) |->
           SumDict([guest \in (host + 1)..(self.NTEAMS - 1) |->
               Abs(1 - Count(flat, <<host, guest>>))
             + Abs(1 - Count(flat, <<guest, host>>))])])

NoRepeatGameTwice(game, nextRound) ==
      (IF game \in SeqToSet(nextRound) THEN 1 ELSE 0)
    + (IF <<game[1], game[2]>> \in SeqToSet(nextRound) THEN 1 ELSE 0)

\* What one game of currentRound adds: lines 93-96.
NoRepeatGameSameOnly(game, nextRound) ==
    IF game \in SeqToSet(nextRound) THEN 1 ELSE 0

NoRepeatGame(game, nextRound) ==
      (IF game \in SeqToSet(nextRound) THEN 1 ELSE 0)
    + (IF <<game[2], game[1]>> \in SeqToSet(nextRound) THEN 1 ELSE 0)

\* What the pair of rounds (nextRoundNr-1, nextRoundNr) adds; nextRoundNr is the
\* Python index.
NoRepeatPair(t, nextRoundNr) ==
    LET currentRound == t[nextRoundNr]
        nextRound == t[nextRoundNr + 1]
    IN SumDict([g \in DOMAIN currentRound |-> NoRepeatGame(currentRound[g], nextRound)])

countNoRepeatViolations(self, t) ==
    SumDict([nextRoundNr \in 1..(self.NROUNDS - 1) |-> NoRepeatPair(t, nextRoundNr)])

\* countMaxStreakViolations' locals before the first round.
StreakInit(self) ==
    [violations |-> 0, streak |-> [team \in 0..(self.NTEAMS - 1) |-> <<0, 0>>]]

StreakGameAtLeast(self, s, game) ==
    LET host == game[1]
        guest == game[2]
        home == s.streak[host][1]
        v1 == IF home + 1 >= self.MAXSTREAK THEN 1 ELSE 0
        streak1 == [s.streak EXCEPT ![host] = <<home + 1, 0>>]
        away == streak1[guest][2]
        v2 == IF away + 1 >= self.MAXSTREAK THEN 1 ELSE 0
    IN [violations |-> s.violations + v1 + v2,
        streak |-> [streak1 EXCEPT ![guest] = <<0, away + 1>>]]

\* One iteration of the inner loop, lines 104-111.
StreakGame(self, s, game) ==
    LET host == game[1]
        guest == game[2]
        home == s.streak[host][1]
        v1 == IF home + 1 > self.MAXSTREAK THEN 1 ELSE 0
        streak1 == [s.streak EXCEPT ![host] = <<home + 1, 0>>]
        away == streak1[guest][2]
        v2 == IF away + 1 > self.MAXSTREAK THEN 1 ELSE 0
    IN [violations |-> s.violations + v1 + v2,
        streak |-> [streak1 EXCEPT ![guest] = <<0, away + 1>>]]

\* The locals after the first k games of a round.
RECURSIVE StreakGames(_, _, _, _)
StreakGames(self, s, round, k) ==
    IF k = 0 THEN s
    ELSE StreakGame(self, StreakGames(self, s, round, k - 1), round[k])

\* The locals after the first k rounds of t.
RECURSIVE StreakScan(_, _, _)
StreakScan(self, t, k) ==
    IF k = 0 THEN StreakInit(self)
    ELSE StreakGames(self, StreakScan(self, t, k - 1), t[k], Len(t[k]))

countMaxStreakViolations(self, t) == StreakScan(self, t, Len(t)).violations

(***************************************************************************)
(* Frames.                                                                  *)
(***************************************************************************)

At(p, label) == pc' = [pc EXCEPT ![p] = label]

mainVars == <<experiments, results, all_results, task>>
driverVars == <<tournament, arg, ret>>
rngVars == <<mt, rng>>

\* The processes ps have not seeded their generators: each is in any state.  (The
\* other processes draw nothing.)
Unseeded(ps) ==
    {state \in [Procs -> 0..(RngPeriod - 1)] : \A p \in Procs \ ps : state[p] = 0}

\* One process, main, holding the Experiment self; no pool, nothing drawn yet.
InitSingle(self, label) ==
    /\ mt = <<>>
    /\ rng \in Unseeded({Main})
    /\ pc = [p \in Procs |-> IF p = Main THEN label ELSE "idle"]
    /\ exp = (Main :> self)
    /\ repetition = <<>>
    /\ output = <<>>
    /\ experiments = <<>>
    /\ results = <<>>
    /\ all_results = <<>>
    /\ task = [w \in Workers |-> 0]
    /\ tournament = <<>>
    /\ arg = <<>>
    /\ ret = <<>>

(***************************************************************************)
(* The random module.  A process's generator state is its position in the   *)
(* generator's output stream; random.seed(1) puts it at position 0.  The    *)
(* stream is one fixed but unknown function of the position: mt records the *)
(* words drawn so far, a position drawn again gives the same word.          *)
(***************************************************************************)
Words == 0..(RngWords - 1)

\* The stream positions of the next k shuffles of a generator at position pos.
Positions(pos, k) == [j \in 1..k |-> (pos + j - 1) % RngPeriod]

\* The ways the stream may continue where those k shuffles read it.
Fresh(pos, k) == [SeqToSet(Positions(pos, k)) \ DOMAIN mt -> Words]

\* The words of those k shuffles, in the stream m.
Drawn(pos, k, m) == [j \in 1..k |-> m[Positions(pos, k)[j]]]

\* The generator state of p after k more shuffles.
Advance(state, p, k) == [state EXCEPT ![p] = (state[p] + k) % RngPeriod]

(***************************************************************************)
(* SpecCodec: the two codec methods called on an Experiment of N teams.     *)
(***************************************************************************)
CodecTeamCounts == {2 * k : k \in 1..MaxCodecPairs}

InitCodec ==
    \E n \in CodecTeamCounts :
        InitSingle(NewExperiment(DefaultRepetitions, n, DefaultMaxStreak), "ready")

\* gid = self.teamIdsToGameId(host, guest)
CallTeamIdsToGameId(host, guest) ==
    /\ pc[Main] = "ready"
    /\ host # guest
    /\ arg' = <<host, guest>>
    /\ ret' = teamIdsToGameId(exp[Main], host, guest)
    /\ At(Main, "encoded")
    /\ UNCHANGED <<rngVars, exp, repetition, output, mainVars, tournament>>

\* self.gameIdToTeamIds(gid) on the id just returned
DecodeReturnedId ==
    /\ pc[Main] = "encoded"
    /\ ret' = gameIdToTeamIds(exp[Main], ret)
    /\ At(Main, "encoded_decoded")
    /\ UNCHANGED <<rngVars, exp, repetition, output, mainVars, tournament, arg>>

\* host, guest = self.gameIdToTeamIds(gid)
CallGameIdToTeamIds(gid) ==
    /\ pc[Main] = "ready"
    /\ arg' = gid
    /\ ret' = gameIdToTeamIds(exp[Main], gid)
    /\ At(Main, "decoded")
    /\ UNCHANGED <<rngVars, exp, repetition, output, mainVars, tournament>>

\* self.teamIdsToGameId(host, guest) on the pair just returned
EncodeReturnedPair ==
    /\ pc[Main] = "decoded"
    /\ ret' = teamIdsToGameId(exp[Main], ret[1], ret[2])
    /\ At(Main, "decoded_encoded")
    /\ UNCHANGED <<rngVars, exp, repetition, output, mainVars, tournament, arg>>

NextCodec ==
    \/ \E host, guest \in 0..(exp[Main].NTEAMS - 1) : CallTeamIdsToGameId(host, guest)
    \/ DecodeReturnedId
    \/ \E gid \in 0..(exp[Main].NGAMES - 1) : CallGameIdToTeamIds(gid)
    \/ EncodeReturnedPair

SpecCodec == InitCodec /\ [][NextCodec]_vars

OrderedPairs(n) == {p \in (0..(n - 1)) \X (0..(n - 1)) : p[1] # p[2]}

\* C1: for every even N of the bound, decoding an encoded pair of distinct teams
\* gives the pair back, encoding a decoded id of [0, N*(N-1)) gives the id back,
\* a decoded id is a pair of distinct teams of [0, N), and the ids of all ordered
\* pairs are exactly [0, N*(N-1)), no two pairs sharing one.
C1_CodecBijection ==
    LET self == exp[Main]
        pairs == OrderedPairs(self.NTEAMS)
        ids == 0..(self.NTEAMS * (self.NTEAMS - 1) - 1)
    IN /\ pc[Main] = "encoded" => ret \in ids
       /\ pc[Main] = "encoded_decoded" => ret = arg
       /\ pc[Main] = "decoded" => ret \in pairs
       /\ pc[Main] = "decoded_encoded" => ret = arg
       /\ {teamIdsToGameId(self, p[1], p[2]) : p \in pairs} = ids
       /\ \A p, q \in pairs :
             teamIdsToGameId(self, p[1], p[2]) = teamIdsToGameId(self, q[1], q[2])
                 => p = q

\* A pair whose guest id is above its host id (the shifted case) made the round
\* trip at the largest team count.
C1_Witness ==
    /\ pc[Main] = "encoded_decoded"
    /\ exp[Main].NTEAMS = 2 * MaxCodecPairs
    /\ arg[2] > arg[1]
    /\ ret = arg

(***************************************************************************)
(* SpecCount: a test driver generates a round or a tournament, or builds    *)
(* the 4-team fixture by hand, and calls the three counters on it.          *)
(***************************************************************************)
Thresholds == (0..MaxThreshold) \cup {DefaultMaxStreak}

Fixture ==
    << << <<0, 1>>, <<2, 3>> >>, << <<1, 0>>, <<3, 2>> >>,
       << <<0, 2>>, <<1, 3>> >>, << <<2, 0>>, <<3, 1>> >>,
       << <<0, 3>>, <<2, 1>> >>, << <<3, 0>>, <<1, 2>> >> >>

\* lst.insert(i, x), i a Python index
Insert(lst, i, x) == SubSeq(lst, 1, i) \o <<x>> \o SubSeq(lst, i + 1, Len(lst))

InitCount ==
    \E n \in TeamCounts, maxStreak \in Thresholds :
        InitSingle(NewExperiment(DefaultRepetitions, n, maxStreak), "ready")

\* self.randomRound()
CallRandomRound ==
    /\ pc[Main] = "ready"
    /\ \E ext \in Fresh(rng[Main], 1) :
          /\ mt' = mt @@ ext
          /\ ret' = randomRound(exp[Main], Drawn(rng[Main], 1, mt @@ ext)[1])
    /\ rng' = Advance(rng, Main, 1)
    /\ At(Main, "round")
    /\ UNCHANGED <<exp, repetition, output, mainVars, tournament, arg>>

\* tournament = self.randomTournament()
CallRandomTournament ==
    /\ pc[Main] = "ready"
    /\ \E ext \in Fresh(rng[Main], exp[Main].NROUNDS) :
          /\ mt' = mt @@ ext
          /\ tournament' =
                 randomTournament(exp[Main], Drawn(rng[Main], exp[Main].NROUNDS, mt @@ ext))
    /\ rng' = Advance(rng, Main, exp[Main].NROUNDS)
    /\ At(Main, "generated")
    /\ UNCHANGED <<exp, repetition, output, mainVars, arg, ret>>

\* The hand-built tournament, for Experiment(nTeams=4, maxStreak=3).
LoadFixture ==
    /\ pc[Main] = "ready"
    /\ exp[Main].NTEAMS = 4
    /\ exp[Main].MAXSTREAK = DefaultMaxStreak
    /\ tournament' = Fixture
    /\ At(Main, "fixture")
    /\ UNCHANGED <<rngVars, exp, repetition, output, mainVars, arg, ret>>

\* The three counter calls of lines 118, 121 and 124 on the tournament.
Counts(self, t) ==
    [maxStreakViolations |-> countMaxStreakViolations(self, t),
     doubleRoundRobinViolations |-> countDoubleRoundRobinViolations(self, t),
     noRepeatViolations |-> countNoRepeatViolations(self, t)]

CallCounters ==
    /\ pc[Main] \in {"generated", "fixture", "mutated"}
    /\ ret' = Counts(exp[Main], tournament)
    /\ At(Main, CASE pc[Main] = "generated" -> "counted"
                  [] pc[Main] = "fixture" -> "fixture_counted"
                  [] pc[Main] = "mutated" -> "mutated_counted")
    /\ UNCHANGED <<rngVars, exp, repetition, output, mainVars, tournament, arg>>

\* tournament.insert(1, copy of round 0), keeping the no-repeat count of the
\* unmodified sequence as the baseline.
DuplicateRound0 ==
    /\ pc[Main] = "fixture_counted"
    /\ arg' = ret.noRepeatViolations
    /\ tournament' = Insert(tournament, 1, tournament[1])
    /\ At(Main, "mutated")
    /\ UNCHANGED <<rngVars, exp, repetition, output, mainVars, ret>>

NextCount ==
    \/ CallRandomRound
    \/ CallRandomTournament
    \/ LoadFixture
    \/ CallCounters
    \/ DuplicateRound0

SpecCount == InitCount /\ [][NextCount]_vars

Teams(self) == 0..(self.NTEAMS - 1)

RECURSIVE Factorial(_)
Factorial(n) == IF n <= 1 THEN 1 ELSE n * Factorial(n - 1)

\* How often a team plays in a round, as host or as guest.
Appearances(round, team) ==
    Cardinality({a \in (DOMAIN round) \X {1, 2} : round[a[1]][a[2]] = team})

\* A round of n teams: n/2 games, every team in exactly one of them.
IsRound(n, round) ==
    /\ Len(round) = n \div 2
    /\ \A team \in 0..(n - 1) : Appearances(round, team) = 1

\* C2: every round randomRound returns, whatever permutation the shuffle gives,
\* and every decoded round of randomTournament has exactly N/2 games with every
\* team of [0, N) in exactly one of them; randomTournament returns 2*(N-1) rounds.
C2_RoundsArePerfectMatchings ==
    LET self == exp[Main]
        n == self.NTEAMS
        decoded(round) == [g \in DOMAIN round |-> gameIdToTeamIds(self, round[g])]
    IN /\ \A w \in 0..(Factorial(n) - 1) : IsRound(n, decoded(randomRound(self, w)))
       /\ pc[Main] = "round" => IsRound(n, decoded(ret))
       /\ pc[Main] \in {"generated", "counted"} =>
             /\ Len(tournament) = 2 * (n - 1)
             /\ \A r \in DOMAIN tournament : IsRound(n, tournament[r])

\* A generated 4-team tournament whose first two rounds differ.
C2_Witness ==
    /\ pc[Main] = "generated"
    /\ exp[Main].NTEAMS = 4
    /\ Len(tournament) = 6
    /\ tournament[1] # tournament[2]

FixtureCounted == pc[Main] = "fixture_counted" /\ tournament = Fixture

\* C4 as stated: on the hand-built 4-team tournament, with nTeams=4 and
\* maxStreak=3, all three counters return 0.
C4_FixtureAllZero ==
    FixtureCounted =>
        /\ ret.doubleRoundRobinViolations = 0
        /\ ret.noRepeatViolations = 0
        /\ ret.maxStreakViolations = 0

\* C4 amended: on that tournament countDoubleRoundRobinViolations and
\* countMaxStreakViolations return 0 and countNoRepeatViolations returns 6: rounds
\* 1, 3 and 5 are rounds 0, 2 and 4 with host and guest swapped, and each of their
\* two games is a reversed rematch.
C4_FixtureCounts ==
    FixtureCounted =>
        /\ ret.doubleRoundRobinViolations = 0
        /\ ret.noRepeatViolations = 6
        /\ ret.maxStreakViolations = 0

C4_Witness ==
    /\ FixtureCounted
    /\ exp[Main].NTEAMS = 4
    /\ exp[Main].MAXSTREAK = 3
    /\ NoRepeatPair(tournament, 1) = 2

\* C5: with a copy of round 0 inserted at index 1 of the fixture,
\* countNoRepeatViolations is exactly 2 above its value on the unmodified fixture.
C5_DuplicateAddsTwo ==
    pc[Main] = "mutated_counted" => ret.noRepeatViolations = arg + 2

\* Whether the team hosts in round k of t (it is the guest otherwise).
Hosts(t, k, team) == \E g \in DOMAIN t[k] : t[k][g][1] = team

\* The number of consecutive rounds ending at round k in which the team has the
\* role it has in round k.
RunLength(t, k, team) ==
    LET breaks == {j \in 1..(k - 1) : Hosts(t, j, team) # Hosts(t, k, team)}
    IN k - (IF breaks = {} THEN 0 ELSE CHOOSE j \in breaks : \A i \in breaks : i <= j)

\* The rounds at which a maximal same-role run of the team ends.
RunEnds(t, team) ==
    {k \in DOMAIN t : k = Len(t) \/ Hosts(t, k + 1, team) # Hosts(t, k, team)}

Counted == pc[Main] \in {"counted", "fixture_counted", "mutated_counted"}

\* C9: on a tournament of perfect matchings countMaxStreakViolations returns the
\* number of (team, round) occurrences whose same-role run ending at that round is
\* longer than MAXSTREAK, which is the sum over the maximal runs of
\* max(0, length - MAXSTREAK); and after every scanned round each team has exactly
\* one of its two streak counters nonzero, holding the length of its current run.
C9_StreakViolations ==
    Counted =>
        LET self == exp[Main]
            t == tournament
            over(k) == IF k > self.MAXSTREAK THEN k - self.MAXSTREAK ELSE 0
        IN /\ ret.maxStreakViolations =
                 Cardinality({o \in Teams(self) \X DOMAIN t :
                                 RunLength(t, o[2], o[1]) > self.MAXSTREAK})
           /\ ret.maxStreakViolations =
                 SumDict([team \in Teams(self) |->
                     SumDict([k \in RunEnds(t, team) |-> over(RunLength(t, k, team))])])
           /\ \A k \in DOMAIN t : \A team \in Teams(self) :
                 LET st == StreakScan(self, t, k).streak[team]
                 IN /\ (st[1] = 0) # (st[2] = 0)
                    /\ st = IF Hosts(t, k, team)
                              THEN <<RunLength(t, k, team), 0>>
                              ELSE <<0, RunLength(t, k, team)>>

\* A generated 4-team tournament with a run two rounds above the threshold and
\* a team that changes role.
C9_Witness ==
    /\ pc[Main] = "counted"
    /\ exp[Main].NTEAMS = 4
    /\ exp[Main].MAXSTREAK = 2
    /\ \E team \in Teams(exp[Main]), k \in DOMAIN tournament :
          RunLength(tournament, k, team) = 4
    /\ \E team \in Teams(exp[Main]), k \in DOMAIN tournament :
          k > 1 /\ RunLength(tournament, k, team) = 1
    /\ ret.maxStreakViolations > 0

\* C10: in a tournament randomTournament produced, a game of round r adds at most
\* 1 to countNoRepeatViolations for the pair (r, r+1), so a pair of rounds adds at
\* most N/2 and the total is at most (2*(N-1) - 1) * N/2.
C10_RematchCountedOnce ==
    LET self == exp[Main]
        t == tournament
    IN /\ pc[Main] \in {"generated", "counted"} =>
             \A r \in 1..(self.NROUNDS - 1) :
                 /\ \A g \in DOMAIN t[r] : NoRepeatGame(t[r][g], t[r + 1]) <= 1
                 /\ NoRepeatPair(t, r) <= self.NTEAMS \div 2
       /\ pc[Main] = "counted" =>
             ret.noRepeatViolations
                 <= (2 * (self.NTEAMS - 1) - 1) * (self.NTEAMS \div 2)

\* A generated 4-team tournament in which a game is repeated in the next round
\* and another is replayed with host and guest swapped.
C10_Witness ==
    /\ pc[Main] = "counted"
    /\ exp[Main].NTEAMS = 4
    /\ \E r \in 1..5 : \E g \in DOMAIN tournament[r] :
          tournament[r][g] \in SeqToSet(tournament[r + 1])
    /\ \E r \in 1..5 : \E g \in DOMAIN tournament[r] :
          <<tournament[r][g][2], tournament[r][g][1]>> \in SeqToSet(tournament[r + 1])
    /\ ret.noRepeatViolations > 0

(***************************************************************************)
(* Experiment.execute and saveResults, run by process p on its Experiment.  *)
(***************************************************************************)
\* The body of execute's loop on the generated tournament t, lines 118-125.
Record(self, t) ==
    [self EXCEPT
        !.maxStreakViolations = increment(@, countMaxStreakViolations(self, t), 1, 0),
        !.doubleRoundRobinViolations =
            increment(@, countDoubleRoundRobinViolations(self, t), 1, 0),
        !.noRepeatViolations = increment(@, countNoRepeatViolations(self, t), 1, 0)]

\* One iteration of the loop of execute.  With an odd team count the first
\* randomRound shuffles and then raises TypeError, which ends execute.
Repetition(p) ==
    /\ pc[p] = "execute"
    /\ repetition[p] < exp[p].NREPETITIONS
    /\ IF exp[p].NROUNDS >= 1 /\ randomRoundRaises(exp[p])
       THEN /\ \E ext \in Fresh(rng[p], 1) : mt' = mt @@ ext
            /\ rng' = Advance(rng, p, 1)
            /\ At(p, "TypeError")
            /\ UNCHANGED <<exp, repetition>>
       ELSE /\ \E ext \in Fresh(rng[p], exp[p].NROUNDS) :
                  /\ mt' = mt @@ ext
                  /\ exp' = [exp EXCEPT ![p] =
                        Record(@, randomTournament(@,
                                      Drawn(rng[p], exp[p].NROUNDS, mt @@ ext)))]
            /\ rng' = Advance(rng, p, exp[p].NROUNDS)
            /\ repetition' = [repetition EXCEPT ![p] = @ + 1]
            /\ UNCHANGED pc
    /\ UNCHANGED <<output, mainVars, driverVars>>

\* The name saveResults writes to; timeCreated is the same for a whole batch.
FileName(self) == <<self.NTEAMS, self.NREPETITIONS, self.MAXSTREAK>>

FileContent(self) ==
    [maxStreakViolations |-> self.maxStreakViolations,
     noRepeatViolations |-> self.noRepeatViolations,
     doubleRoundRobinViolations |-> self.doubleRoundRobinViolations]

\* open(name, "w") and json.dump
Written(files, self) == Put(files, FileName(self), FileContent(self))

\* The loop of execute is exhausted: self.saveResults(), and execute returns.
SaveResults(p) ==
    /\ pc[p] = "execute"
    /\ repetition[p] >= exp[p].NREPETITIONS
    /\ output' = Written(output, exp[p])
    /\ At(p, "executed")
    /\ UNCHANGED <<rngVars, exp, repetition, mainVars, driverVars>>

(***************************************************************************)
(* SpecExec: main constructs one Experiment from a configuration, valid or  *)
(* not, and calls execute on it.                                            *)
(***************************************************************************)
InitExec ==
    /\ mt = <<>>
    /\ rng \in Unseeded({Main})
    /\ pc = [p \in Procs |-> IF p = Main THEN "new" ELSE "idle"]
    /\ exp = <<>>
    /\ repetition = <<>>
    /\ output = <<>>
    /\ experiments = <<>>
    /\ results = <<>>
    /\ all_results = <<>>
    /\ task = [w \in Workers |-> 0]
    /\ tournament = <<>>
    /\ arg = <<>>
    /\ ret = <<>>

\* exp = Experiment(repetitions, nTeams, maxStreak); exp.execute()
\* With nTeams = 1, NROUNDS is 0 and line 49 raises ZeroDivisionError.
Construct(repetitions, nTeams, maxStreak) ==
    /\ pc[Main] = "new"
    /\ arg' = <<repetitions, nTeams, maxStreak>>
    /\ IF 2 * (nTeams - 1) = 0
       THEN /\ At(Main, "ZeroDivisionError")
            /\ UNCHANGED <<exp, repetition>>
       ELSE /\ exp' = (Main :> NewExperiment(repetitions, nTeams, maxStreak))
            /\ repetition' = (Main :> 0)
            /\ At(Main, "execute")
    /\ UNCHANGED <<rngVars, output, mainVars, tournament, ret>>

NextExec ==
    \/ \E repetitions \in (-1)..MaxReps, nTeams \in 1..4,
          maxStreak \in (-1)..MaxThreshold :
            Construct(repetitions, nTeams, maxStreak)
    \/ Repetition(Main)
    \/ SaveResults(Main)

SpecExec == InitExec /\ [][NextExec]_vars

Histograms(self) ==
    {self.maxStreakViolations, self.doubleRoundRobinViolations, self.noRepeatViolations}

\* C3: in execute on a freshly constructed Experiment, after k completed
\* repetitions each of the three histograms sums to k, so when execute has saved
\* the results each sums to NREPETITIONS (and so does what was saved); every key
\* is an integer >= 0 and every stored frequency is >= 1.
C3_HistogramSums ==
    Main \in DOMAIN exp =>
        LET self == exp[Main]
            k == repetition[Main]
        IN /\ k >= 0
           /\ k <= self.NREPETITIONS \/ k = 0
           /\ \A h \in Histograms(self) :
                 /\ SumDict(h) = k
                 /\ \A key \in DOMAIN h : key \in Nat /\ h[key] >= 1
           /\ (pc[Main] = "executed" /\ self.NREPETITIONS >= 0) =>
                 /\ k = self.NREPETITIONS
                 /\ \A h \in Histograms(output[FileName(self)]) :
                       SumDict(h) = self.NREPETITIONS

\* A finished run of MaxReps repetitions in which one histogram counted the same
\* value twice and another counted two different values.
C3_Witness ==
    /\ pc[Main] = "executed"
    /\ exp[Main].NREPETITIONS = MaxReps
    /\ \E key \in DOMAIN exp[Main].noRepeatViolations :
          exp[Main].noRepeatViolations[key] >= 2
    /\ Cardinality(DOMAIN exp[Main].maxStreakViolations) >= 2

Invalid(config) == config[2] % 2 # 0 \/ config[1] <= 0 \/ config[3] < 0

\* C7: a configuration with a non-even teamCount, repetitions <= 0 or
\* threshold < 0 is rejected before any work starts: no repetition runs, no
\* histogram entry is recorded and no result is saved for it.
C7_InvalidRejected ==
    (pc[Main] # "new" /\ Invalid(arg)) =>
        /\ pc[Main] # "executed"
        /\ output = <<>>
        /\ Main \in DOMAIN exp =>
              /\ repetition[Main] = 0
              /\ \A h \in Histograms(exp[Main]) : DOMAIN h = {}

(***************************************************************************)
(* SpecPool: main.  pool.map hands the experiments to the worker processes  *)
(* in input order; a worker unpickles its copy, runs executeExperiment and  *)
(* sends the Experiment back; main reduces what pool.map returned, in input *)
(* order, once the pool has shut down.                                      *)
(***************************************************************************)
\* main's grid, range(4, 52, 2) x range(1, 6), scaled down.
GridTeams == <<2, 4>>
GridThresholds == <<1, 2>>

\* [Experiment(repetitions, nTeams, maxStreak) for nTeams in .. for maxStreak in ..]
Grid ==
    [i \in 1..(Len(GridTeams) * Len(GridThresholds)) |->
        NewExperiment(MaxReps,
                      GridTeams[((i - 1) \div Len(GridThresholds)) + 1],
                      GridThresholds[((i - 1) % Len(GridThresholds)) + 1])]

\* The lists handed to pool.map: main's grid, and the grid followed by a second
\* run of its first configuration.
Batches == {Grid, Grid \o <<Grid[1]>>}

InitPool ==
    /\ mt = <<>>
    /\ rng \in Unseeded(Workers)
    /\ pc = [p \in Procs |-> IF p = Main THEN "mapped" ELSE "idle"]
    /\ exp = <<>>
    /\ repetition = <<>>
    /\ output = <<>>
    /\ experiments \in Batches
    /\ results = <<>>
    /\ all_results = <<>>
    /\ task = [w \in Workers |-> 0]
    /\ tournament = <<>>
    /\ arg = <<>>
    /\ ret = <<>>

\* The input index of the next work item: items leave the queue in input order.
NextItem == Cardinality(DOMAIN results) + Cardinality({w \in Workers : task[w] # 0}) + 1

\* The number of shuffles of a whole execute().
Shuffles(self) ==
    IF self.NREPETITIONS > 0 /\ self.NROUNDS > 0
    THEN self.NREPETITIONS * self.NROUNDS ELSE 0

\* self after the first k iterations of execute's loop, run with the generator
\* at position pos of the stream m when execute is entered.
RECURSIVE Executed(_, _, _, _)
Executed(self, k, pos, m) ==
    IF k <= 0 THEN self
    ELSE Record(Executed(self, k - 1, pos, m),
                randomTournament(self,
                    Drawn(pos + (k - 1) * self.NROUNDS, self.NROUNDS, m)))

seedSkipped(state, p) == state

\* random.seed(1)
seed(state, p) == [state EXCEPT ![p] = 0]

\* An idle worker takes the next work item and runs executeExperiment on its copy
\* of the Experiment: random.seed(1), exp.execute() (the loop and saveResults).
ExecuteExperiment(w) ==
    /\ pc[Main] = "mapped"
    /\ pc[w] = "idle"
    /\ NextItem <= Len(experiments)
    /\ LET self == experiments[NextItem]
           seeded == seed(rng, w)
       IN /\ \E ext \in Fresh(seeded[w], Shuffles(self)) :
                /\ mt' = mt @@ ext
                /\ exp' = Put(exp, w,
                       Executed(self, self.NREPETITIONS, seeded[w], mt @@ ext))
          /\ rng' = Advance(seeded, w, Shuffles(self))
    /\ output' = Written(output, exp'[w])
    /\ task' = [task EXCEPT ![w] = NextItem]
    /\ At(w, "executed")
    /\ UNCHANGED <<repetition, experiments, results, all_results, driverVars>>

\* executeExperiment returns exp; the pool sends it back to main.
ReturnResult(w) ==
    /\ pc[w] = "executed"
    /\ results' = Put(results, task[w], exp[w])
    /\ exp' = [p \in DOMAIN exp \ {w} |-> exp[p]]
    /\ task' = [task EXCEPT ![w] = 0]
    /\ At(w, "idle")
    /\ UNCHANGED <<rngVars, repetition, output, experiments, all_results, driverVars>>

ThresholdKey(self) == <<"maxStreak=", self.MAXSTREAK>>
TeamsKey(self) == <<"teams=", self.NTEAMS>>

ReduceOneFresh(all, e) ==
    Put(all, ThresholdKey(e), Put(EmptyDict, TeamsKey(e), FileContent(e)))

\* One iteration of main's loop over the returned experiments, lines 151-157.
ReduceOne(all, e) ==
    LET streak_results ==
            IF ThresholdKey(e) \in DOMAIN all THEN all[ThresholdKey(e)] ELSE EmptyDict
    IN Put(all, ThresholdKey(e), Put(streak_results, TeamsKey(e), FileContent(e)))

\* all_results after the first k returned experiments.
RECURSIVE Reduced(_, _)
Reduced(exps, k) ==
    IF k = 0 THEN EmptyDict ELSE ReduceOne(Reduced(exps, k - 1), exps[k])

\* pool.shutdown() has returned, so every work item is done: main's loop over
\* what pool.map returned, and the dump of all_results.
Reduce ==
    /\ pc[Main] = "mapped"
    /\ DOMAIN results = 1..Len(experiments)
    /\ all_results' = Reduced(results, Len(experiments))
    /\ output' = Put(output, <<"all-results">>, Reduced(results, Len(experiments)))
    /\ At(Main, "reduced")
    /\ UNCHANGED <<rngVars, exp, repetition, experiments, results, task, driverVars>>

NextPool ==
    \/ \E w \in Workers : ExecuteExperiment(w)
    \/ \E w \in Workers : ReturnResult(w)
    \/ Reduce

SpecPool == InitPool /\ [][NextPool]_vars

Slot(self) == <<self.MAXSTREAK, self.NTEAMS>>

DistinctConfigurations ==
    \A i, j \in DOMAIN experiments :
        Slot(experiments[i]) = Slot(experiments[j]) => i = j

\* C6: for configurations with pairwise distinct (maxStreak, nTeams), whatever the
\* order in which the workers ran and returned, all_results has exactly one slot
\* per configuration, keyed by threshold and then by team count, holding the three
\* histograms of that configuration's run: the mapping is the one a seeded run
\* of each configuration on its own gives.
C6_AggregateOrderIndependent ==
    (pc[Main] = "reduced" /\ DistinctConfigurations) =>
        LET exps == SeqToSet(experiments)
            alone(e) == FileContent(Executed(e, e.NREPETITIONS, 0, mt))
        IN /\ DOMAIN all_results = {ThresholdKey(e) : e \in exps}
           /\ \A k \in DOMAIN all_results :
                 DOMAIN all_results[k] = {TeamsKey(e) : e \in {x \in exps : ThresholdKey(x) = k}}
           /\ SumDict([k \in DOMAIN all_results |-> Cardinality(DOMAIN all_results[k])])
                 = Len(experiments)
           /\ \A i \in DOMAIN experiments :
                 LET held == all_results[ThresholdKey(experiments[i])][TeamsKey(experiments[i])]
                 IN /\ held = FileContent(results[i])
                    /\ held = alone(experiments[i])
           /\ output[<<"all-results">>] = all_results

\* The whole grid reduced: two thresholds with two team counts each, and two
\* slots that hold different histograms.
C6_Witness ==
    /\ pc[Main] = "reduced"
    /\ experiments = Grid
    /\ Cardinality(DOMAIN all_results) >= 2
    /\ \A k \in DOMAIN all_results : Cardinality(DOMAIN all_results[k]) >= 2
    /\ \E k \in DOMAIN all_results : \E a, b \in DOMAIN all_results[k] :
          all_results[k][a] # all_results[k][b]

\* C8: the histograms executeExperiment returns depend only on the configuration:
\* two returned runs of the same (nTeams, repetitions, maxStreak) hold the same
\* three histograms, whatever ran before on the same worker, whatever state the
\* worker's generator started in and whatever the other worker did; a returned
\* Experiment is the one submitted at its index, and its file holds its histograms.
C8_SameConfigurationSameHistograms ==
    /\ \A i, j \in DOMAIN results :
          FileName(results[i]) = FileName(results[j])
              => FileContent(results[i]) = FileContent(results[j])
    /\ \A i \in DOMAIN results :
          /\ FileName(results[i]) = FileName(experiments[i])
          /\ output[FileName(results[i])] = FileContent(results[i])

\* A configuration returned twice, with a run of the whole grid in between,
\* whose streak histogram holds two different counts.
C8_Witness ==
    /\ DOMAIN results = 1..Len(experiments)
    /\ \E i, j \in DOMAIN results :
          /\ i < j
          /\ FileName(results[i]) = FileName(results[j])
          /\ Cardinality(DOMAIN results[i].maxStreakViolations) >= 2
    /\ \E w \in Workers : rng[w] # 0

====
